---- MODULE Spec2Model ----
(***************************************************************************)
(* Model of the invoice pipeline: the Pipeline Orchestrator (processEmail), *)
(* the Document Extractor (processPDFWithGemini), the Record Store writer   *)
(* (saveToDynamo) and the Mail Ingestor (handler of the SES processor).     *)
(*                                                                          *)
(* JavaScript strings are sequences of one-character strings, so that       *)
(* template literals, prefixes and the sanitising regex are computed and    *)
(* not assumed.  A JavaScript value that may be undefined, null or a string *)
(* is a record [t |-> "undefined" | "null" | "string", v |-> <chars>].      *)
(***************************************************************************)
EXTENDS Integers, Sequences, FiniteSets, TLC

\* ------------------------------------------------------------------ bounds
MaxBatch == 2      \* records in one S3 event
MaxClock == 2      \* values of Date.now() seen in one behaviour: 1..MaxClock
MaxAttach == 3     \* attachments in one raw message
MaxLen == 3        \* length of the filenames given to the sanitiser

\* ------------------------------------------------------- string helpers
Undefined == [t |-> "undefined", v |-> <<>>]
Null == [t |-> "null", v |-> <<>>]
Str(s) == [t |-> "string", v |-> s]

\* JavaScript truthiness of an undefined / null / string value
Truthy(x) == x.t = "string" /\ x.v # <<>>

\* a || b
OrElse(a, b) == IF Truthy(a) THEN a ELSE b

IsPrefix(p, s) == Len(p) <= Len(s) /\ SubSeq(s, 1, Len(p)) = p

IsSuffix(p, s) == Len(p) <= Len(s) /\ SubSeq(s, Len(s) - Len(p) + 1, Len(s)) = p

\* s contains p as a contiguous substring
Contains(s, p) == \E i \in 1..(Len(s) - Len(p) + 1) : SubSeq(s, i, i + Len(p) - 1) = p

DigitChar == <<"0", "1", "2", "3", "4", "5", "6", "7", "8", "9">>

\* `${n}` for a non-negative integer n
RECURSIVE NumToStr(_)
NumToStr(n) == IF n < 10 THEN <<DigitChar[n + 1]>>
               ELSE NumToStr(n \div 10) \o <<DigitChar[(n % 10) + 1]>>

\* --------------------------------------------- key decoding (handler.js:16)
\* key.replace(/\+/g, ' ')
ReplacePlus(s) == [i \in 1..Len(s) |-> IF s[i] = "+" THEN " " ELSE s[i]]

HexDigits == {"0", "1", "2", "3", "4", "5", "6", "7", "8", "9", "A", "B", "C", "D", "E", "F"}

HexVal(c) == CHOOSE n \in 0..15 : <<"0", "1", "2", "3", "4", "5", "6", "7", "8", "9", "A", "B", "C", "D", "E", "F">>[n + 1] = c

\* the ASCII code points the modelled keys can escape
AsciiChar == [c \in {32, 37, 43, 65} |-> CASE c = 32 -> " " [] c = 37 -> "%" [] c = 43 -> "+" [] c = 65 -> "A"]

URIError == <<"URIError">>

\* decodeURIComponent: a "%" must be followed by two hex digits that encode
\* a code point; a lone byte >= 0x80 or a truncated escape raises URIError.
RECURSIVE DecodeURIComponent(_)
DecodeURIComponent(s) ==
  IF s = <<>> THEN <<>>
  ELSE IF s[1] # "%"
       THEN LET rest == DecodeURIComponent(Tail(s))
            IN IF rest = URIError THEN URIError ELSE <<s[1]>> \o rest
       ELSE IF Len(s) < 3 \/ s[2] \notin HexDigits \/ s[3] \notin HexDigits
            THEN URIError
            ELSE LET code == 16 * HexVal(s[2]) + HexVal(s[3])
                     rest == DecodeURIComponent(SubSeq(s, 4, Len(s)))
                 IN IF code \notin DOMAIN AsciiChar \/ rest = URIError
                    THEN URIError
                    ELSE <<AsciiChar[code]>> \o rest

\* ------------------------------------------------------------ literals
FallbackPrefix == <<"f", "a", "l", "l", "b", "a", "c", "k", "-">>
ErrorPrefix == <<"e", "r", "r", "o", "r", "-">>
Dash == <<"-">>
ErrorProcessingFailed == "Error-ProcessingFailed"

\* `fallback-${key}-${Date.now()}`  (handler.js:42)
FallbackTicketId(key, ts) == FallbackPrefix \o key \o Dash \o NumToStr(ts)

\* `error-${key}-${Date.now()}`  (handler.js:54)
ErrorTicketId(key, ts) == ErrorPrefix \o key \o Dash \o NumToStr(ts)

\* ------------------------------------------------------------ inputs
\* the event records an S3 notification can carry: a record without its s3
\* member, plain keys, '+' and %XX escapes, and malformed escapes
RawRecords ==
  { [hasS3 |-> FALSE, bucket |-> "b1", key |-> <<"a">>],
    [hasS3 |-> TRUE, bucket |-> "b1", key |-> <<"a">>],
    [hasS3 |-> TRUE, bucket |-> "b1", key |-> <<"a", "+", "%", "4", "1">>],
    [hasS3 |-> TRUE, bucket |-> "b1", key |-> <<"%", "4">>] }

Events == UNION { [1..n -> RawRecords] : n \in 1..MaxBatch }

INV42 == <<"I", "N", "V", "-", "4", "2">>
OwnTicket == <<"T", "-", "O", "L", "D">>

\* what JSON.parse can give for a payload that decodes to an object: the
\* invoiceId member (missing, null, "" or an identifier) and a TicketId
\* member of the payload's own (missing or present)
ExtractedObjects ==
  { [invoiceId |-> Str(INV42), TicketId |-> Str(OwnTicket)],
    [invoiceId |-> Undefined, TicketId |-> Str(OwnTicket)],
    [invoiceId |-> Null, TicketId |-> Undefined],
    [invoiceId |-> Str(<<>>), TicketId |-> Undefined] }

NoObject == [invoiceId |-> Undefined, TicketId |-> Undefined]

\* what modelInstance.generateContent can do: reject (the message naming
\* SAFETY or not), or resolve with a response that has no candidates (with
\* or without promptFeedback.blockReason), a payload that is not JSON, the
\* JSON payload null, or a JSON object
BackendResponses ==
  { [kind |-> k, blockReason |-> "undefined", obj |-> NoObject] :
       k \in {"rejectSafety", "rejectOther", "empty", "notJson", "jsonNull"} }
  \cup { [kind |-> "empty", blockReason |-> r, obj |-> NoObject] : r \in {"SAFETY", "OTHER"} }
  \cup { [kind |-> "object", blockReason |-> "undefined", obj |-> o] : o \in ExtractedObjects }

NoResponse == [kind |-> "none", blockReason |-> "undefined", obj |-> NoObject]

\* ------------------------------------------------------------ state
VARIABLES
  modelInstance,  \* pdfProcessorGenAI.js:18  "model" or "null"
  batchPc,        \* processEmail: "idle", "awaiting" (Promise.all), "returned"
  items,          \* the promises of processingPromises, one per event record
  response,       \* what processEmail returned
  table,          \* the DynamoDB table: a set of items, unique by TicketId
  now,            \* Date.now()
  \* the Mail Ingestor (the SES processor's handler)
  attachmentBucket, \* ATTACHMENT_BUCKET_NAME
  ingPc,          \* "idle", "fetching", "parsing", "uploading", "returned", "raised"
  messageId,      \* record.ses.mail.messageId
  attachments,    \* parsedEmail.attachments
  parsed,         \* whether the loop over the attachments has run
  uploads,        \* uploadPromises, with the parameters of each putObject
  skipped,        \* the attachments the loop skipped
  blobs,          \* the attachment bucket: a set of blobs, unique by Key
  ingResponse,    \* what the handler returned
  ingNow,         \* Date.now() in the ingestor
  \* the filename sanitiser applied to a filename, and again to its result
  sanPc, sanIn, sanOnce, sanTwice,
  \* the Query Service (api_backend/index.js) and the tables of the account
  tableEnv,       \* process.env.INVOICE_TABLE_NAME
  db,             \* DynamoDB: table name -> set of items, unique by TicketId
  qPc,            \* handler: "idle", "getting", "scanning", "returned"
  qEvent,         \* the API Gateway event of the call
  qResponse,      \* what the handler returned
  qReads          \* the db.get and db.scan calls the handler has issued

orchVars == <<modelInstance, batchPc, items, response, table, now>>

ingVars == <<attachmentBucket, ingPc, messageId, attachments, parsed, uploads, skipped,
             blobs, ingResponse, ingNow>>

sanVars == <<sanPc, sanIn, sanOnce, sanTwice>>

qryVars == <<tableEnv, db, qPc, qEvent, qResponse, qReads>>

vars == <<orchVars, ingVars, sanVars, qryVars>>

\* the components an action of the orchestrator, of the ingestor, of the
\* sanitiser and of the query service leaves alone
outsideOrchestrator == <<ingVars, sanVars, qryVars>>

outsideIngestor == <<orchVars, sanVars, qryVars>>

outsideSanitizer == <<orchVars, ingVars, qryVars>>

outsideQuery == <<orchVars, ingVars, sanVars>>

\* ------------------------------------------------------------ errors
\* An error message is its literal text and the value interpolated into it
\* ("" when the text interpolates nothing the model reads).
Msg(text, interp) == [text |-> text, interp |-> interp]

NoError == Msg("none", "")

\* err.message.includes(w): none of the literal texts contains a block reason
Includes(m, w) == m.interp = w

\* -------------------------------- processPDFWithGemini (pdfProcessorGenAI.js)
Thrown(m) == [ok |-> FALSE, error |-> m, data |-> NoObject]

Returned(o) == [ok |-> TRUE, error |-> NoError, data |-> o]

\* lines 99-103: the guard before the request is built
ModelGuard(mi) ==
  IF mi = "null"
  THEN Thrown(Msg("Gemini model is not initialized. Check API Key and SDK setup.", ""))
  ELSE Returned(NoObject)

\* lines 148-181: the body of the try block, given what generateContent did
TryBody(resp) ==
  CASE resp.kind = "rejectSafety" -> Thrown(Msg("[GoogleGenerativeAI Error]: blocked", "SAFETY"))
    [] resp.kind = "rejectOther" -> Thrown(Msg("[GoogleGenerativeAI Error]: fetch failed", ""))
    [] resp.kind = "empty" -> Thrown(Msg("Received an invalid or empty response structure from Gemini API.", ""))
    [] resp.kind = "notJson" -> Thrown(Msg("Failed to parse JSON response from Gemini AI.", ""))
    [] resp.kind = "jsonNull" -> Thrown(Msg("Cannot set properties of null (setting 'S3Bucket')", ""))
    [] OTHER -> Returned(resp.obj)

\* line 150 declares result with const inside the try block, so the name is
\* not bound in the catch block
ResultInCatchScope == FALSE

\* lines 183-194: the catch block.  Line 189 reads result unless the message
\* includes SAFETY, and then line 190 reads it: with result unbound either
\* read raises a ReferenceError, which is what the caller receives.
CatchBlock(err, resp) ==
  IF ~ResultInCatchScope
  THEN Thrown(Msg("result is not defined", ""))
  ELSE IF Includes(err, "SAFETY") \/ resp.blockReason # "undefined"
       THEN Thrown(Msg("Gemini processing blocked for document. Reason: ",
                       IF resp.blockReason # "undefined" THEN resp.blockReason ELSE "Safety Policy"))
       ELSE Thrown(Msg("Gemini processing failed for document. Error: ", err.text))

\* lines 150-194: what processPDFWithGemini gives its caller once
\* generateContent has settled
GeminiFinish(resp) ==
  LET t == TryBody(resp)
  IN IF t.ok THEN t ELSE CatchBlock(t.error, resp)

\* ------------------------------------------- saveToDynamo and the table
NoStatus == "undefined"

\* { TicketId: ..., ...extractedData }: the spread written last, so that a
\* TicketId member of the payload wins
ItemToSaveSpreadLast(obj, bucket, key, ts) ==
  [TicketId |-> IF obj.TicketId # Undefined THEN obj.TicketId
                ELSE OrElse(obj.invoiceId, Str(FallbackTicketId(key, ts))),
   invoiceId |-> obj.invoiceId,
   Status |-> "undefined",
   S3Bucket |-> bucket,
   S3Key |-> key,
   ErrorDetails |-> Msg("none", "")]

\* TicketId: extractedData.invoiceId, without the fallback
ItemToSaveNoFallback(obj, bucket, key, ts) ==
  [TicketId |-> obj.invoiceId,
   invoiceId |-> obj.invoiceId,
   Status |-> "undefined",
   S3Bucket |-> bucket,
   S3Key |-> key,
   ErrorDetails |-> Msg("none", "")]

\* lines 40-43 of handler.js: { ...extractedData, TicketId: invoiceId || fallback }
\* (S3Bucket and S3Key are the ones processPDFWithGemini set, lines 172-173)
ItemToSave(obj, bucket, key, ts) ==
  LET spread == [TicketId |-> obj.TicketId,
                 invoiceId |-> obj.invoiceId,
                 Status |-> NoStatus,
                 S3Bucket |-> bucket,
                 S3Key |-> key,
                 ErrorDetails |-> NoError]
  IN [spread EXCEPT !.TicketId = OrElse(obj.invoiceId, Str(FallbackTicketId(key, ts)))]

\* TicketId: `error-${Date.now()}`, without the key
ErrorRecordNoKey(bucket, key, err, ts) ==
  [TicketId |-> Str(ErrorPrefix \o NumToStr(ts)),
   invoiceId |-> Undefined,
   Status |-> ErrorProcessingFailed,
   S3Bucket |-> bucket,
   S3Key |-> key,
   ErrorDetails |-> err]

\* lines 56-66 of handler.js: the Error Record
ErrorRecord(bucket, key, err, ts) ==
  [TicketId |-> Str(ErrorTicketId(key, ts)),
   invoiceId |-> Undefined,
   Status |-> ErrorProcessingFailed,
   S3Bucket |-> bucket,
   S3Key |-> key,
   ErrorDetails |-> err]

\* the put replaces the table's content
PutReplaceAll(tbl, item) == {item}

\* db.put: upsert by the partition key TicketId
Put(tbl, item) == {r \in tbl : r.TicketId # item.TicketId} \cup {item}

\* ------------------------------------------------ processEmail (handler.js)
NoResult == <<>>

\* lines 52-66: the catch block up to the await of the Error Record's put
HandlerCatch(it, err, ts) ==
  [it EXCEPT !.pc = "savingError",
             !.error = err,
             !.errorTicketId = ErrorTicketId(it.key, ts),
             !.pending = <<ErrorRecord(it.bucket, it.key, err, ts)>>,
             !.nErrPut = @ + 1]

\* lines 14-23: the callback of map, run synchronously up to its first await
StartItem(rec) ==
  LET key == IF rec.hasS3 THEN DecodeURIComponent(ReplacePlus(rec.key)) ELSE URIError
      base == [pc |-> "rejected", bucket |-> rec.bucket, key |-> <<>>,
               error |-> NoError, errorTicketId |-> <<>>, pending |-> <<>>,
               nGet |-> 0, nCall |-> 0, nGen |-> 0, nPut |-> 0, nErrPut |-> 0,
               nWritten |-> 0,
               result |-> NoResult]
  IN IF ~rec.hasS3
     THEN [base EXCEPT !.error = Msg("Cannot read properties of undefined (reading 'bucket')", "")]
     ELSE IF key = URIError
          THEN [base EXCEPT !.error = Msg("URI malformed", "")]
          ELSE [base EXCEPT !.pc = "fetching", !.key = key, !.nGet = 1]

Rejected == \E i \in DOMAIN items : items[i].pc = "rejected"

AllDone == \A i \in DOMAIN items : items[i].pc = "done"

\* Promise.all has settled and its continuation is a queued microtask: it
\* runs before any further I/O completion is delivered
BatchContinuationQueued == batchPc = "awaiting" /\ (Rejected \/ AllDone)

\* processEmail is invoked: lines 11-17, event.Records.map
Invoke(ev) ==
  /\ batchPc = "idle"
  /\ items' = [i \in DOMAIN ev |-> StartItem(ev[i])]
  /\ batchPc' = "awaiting"
  /\ UNCHANGED <<modelInstance, response, table, now>>
  /\ UNCHANGED outsideOrchestrator

\* s3.getObject settles (line 23): it rejects, or resolves with a Buffer body
\* (the SDK never gives another body, so line 28 is not reached), and then
\* the extraction starts
GetObjectDone(i, outcome) ==
  /\ batchPc # "idle" /\ ~BatchContinuationQueued
  /\ i \in DOMAIN items
  /\ items[i].pc = "fetching"
  /\ LET it == items[i]
         g == ModelGuard(modelInstance)
         called == [it EXCEPT !.nCall = @ + 1]
     IN items' = [items EXCEPT ![i] =
          CASE outcome = "fail" -> HandlerCatch(it, Msg("The specified key does not exist.", ""), now)
            [] OTHER -> IF g.ok THEN [called EXCEPT !.pc = "extracting", !.nGen = @ + 1]
                        ELSE HandlerCatch(called, g.error, now)]
  /\ UNCHANGED <<modelInstance, batchPc, response, table, now>>
  /\ UNCHANGED outsideOrchestrator

\* generateContent settles (pdfProcessorGenAI.js:150); on a record the
\* handler builds itemToSave and calls saveToDynamo (handler.js:33-48)
GenerateContentDone(i, resp) ==
  /\ batchPc # "idle" /\ ~BatchContinuationQueued
  /\ i \in DOMAIN items
  /\ items[i].pc = "extracting"
  /\ LET it == items[i]
         g == GeminiFinish(resp)
     IN items' = [items EXCEPT ![i] =
          IF g.ok
          THEN [it EXCEPT !.pc = "saving",
                          !.pending = <<ItemToSave(g.data, it.bucket, it.key, now)>>,
                          !.nPut = @ + 1]
          ELSE HandlerCatch(it, g.error, now)]
  /\ UNCHANGED <<modelInstance, batchPc, response, table, now>>
  /\ UNCHANGED outsideOrchestrator

\* a failed put of the invoice record is issued again
PutDoneRetry(i, ok) ==
  /\ batchPc # "idle" /\ ~BatchContinuationQueued
  /\ i \in DOMAIN items
  /\ items[i].pc = "saving"
  /\ LET it == items[i]
         rec == it.pending[1]
     IN IF ok
        THEN /\ table' = Put(table, rec)
             /\ items' = [items EXCEPT ![i] =
                  [it EXCEPT !.pc = "done",
                             !.pending = <<>>,
                             !.nWritten = @ + 1,
                             !.result = <<[success |-> TRUE, key |-> it.key,
                                           ticketId |-> rec.TicketId, error |-> NoError]>>]]
        ELSE /\ table' = table
             /\ items' = [items EXCEPT ![i] =
                  IF it.nPut < 2 THEN [it EXCEPT !.nPut = @ + 1]
                  ELSE HandlerCatch(it, Msg("DynamoDB put failed", ""), now)]
  /\ UNCHANGED <<modelInstance, batchPc, response, now>>
  /\ UNCHANGED outsideOrchestrator

\* the outcome of the put is not looked at: the item reports success
PutDoneSuccessRegardless(i, ok) ==
  /\ batchPc # "idle" /\ ~BatchContinuationQueued
  /\ i \in DOMAIN items
  /\ items[i].pc = "saving"
  /\ LET it == items[i]
         rec == it.pending[1]
     IN /\ table' = IF ok THEN Put(table, rec) ELSE table
        /\ items' = [items EXCEPT ![i] =
             [it EXCEPT !.pc = "done",
                        !.pending = <<>>,
                        !.nWritten = IF ok THEN @ + 1 ELSE @,
                        !.result = <<[success |-> TRUE, key |-> it.key,
                                      ticketId |-> rec.TicketId, error |-> NoError]>>]]
  /\ UNCHANGED <<modelInstance, batchPc, response, now>>
  /\ UNCHANGED outsideOrchestrator

\* db.put of the invoice record settles (saveToDynamo, lines 214-222;
\* handler.js:48-50)
PutDone(i, ok) ==
  /\ batchPc # "idle" /\ ~BatchContinuationQueued
  /\ i \in DOMAIN items
  /\ items[i].pc = "saving"
  /\ LET it == items[i]
         rec == it.pending[1]
     IN IF ok
        THEN /\ table' = Put(table, rec)
             /\ items' = [items EXCEPT ![i] =
                  [it EXCEPT !.pc = "done",
                             !.pending = <<>>,
                             !.nWritten = @ + 1,
                             !.result = <<[success |-> TRUE, key |-> it.key,
                                           ticketId |-> rec.TicketId, error |-> NoError]>>]]
        ELSE /\ table' = table
             /\ items' = [items EXCEPT ![i] =
                  HandlerCatch(it, Msg("DynamoDB put failed", ""), now)]
  /\ UNCHANGED <<modelInstance, batchPc, response, now>>
  /\ UNCHANGED outsideOrchestrator

\* the inner catch rethrows dbError: the item's promise rejects
ErrorPutDoneRethrow(i, ok) ==
  /\ batchPc # "idle" /\ ~BatchContinuationQueued
  /\ i \in DOMAIN items
  /\ items[i].pc = "savingError"
  /\ LET it == items[i]
     IN /\ table' = IF ok THEN Put(table, it.pending[1]) ELSE table
        /\ items' = [items EXCEPT ![i] =
             IF ok
             THEN [it EXCEPT !.pc = "done",
                             !.pending = <<>>,
                             !.nWritten = @ + 1,
                             !.result = <<[success |-> FALSE, key |-> it.key,
                                           ticketId |-> Str(it.errorTicketId), error |-> it.error]>>]
             ELSE [it EXCEPT !.pc = "rejected", !.pending = <<>>]]
  /\ UNCHANGED <<modelInstance, batchPc, response, now>>
  /\ UNCHANGED outsideOrchestrator

\* db.put of the Error Record settles (handler.js:56-71)
ErrorPutDone(i, ok) ==
  /\ batchPc # "idle" /\ ~BatchContinuationQueued
  /\ i \in DOMAIN items
  /\ items[i].pc = "savingError"
  /\ LET it == items[i]
     IN /\ table' = IF ok THEN Put(table, it.pending[1]) ELSE table
        /\ items' = [items EXCEPT ![i] =
             [it EXCEPT !.pc = "done",
                        !.pending = <<>>,
                        !.nWritten = IF ok THEN @ + 1 ELSE @,
                        !.result = <<[success |-> FALSE, key |-> it.key,
                                      ticketId |-> Str(it.errorTicketId), error |-> it.error]>>]]
  /\ UNCHANGED <<modelInstance, batchPc, response, now>>
  /\ UNCHANGED outsideOrchestrator

NoResponseYet == [statusCode |-> 0, results |-> <<>>, error |-> NoError]

\* the results are collected last outcome first
BatchResolveReversed ==
  /\ batchPc = "awaiting"
  /\ AllDone
  /\ response' = [statusCode |-> 200,
                  results |-> [i \in DOMAIN items |-> items[Len(items) + 1 - i].result[1]],
                  error |-> NoError]
  /\ batchPc' = "returned"
  /\ UNCHANGED <<modelInstance, items, table, now>>
  /\ UNCHANGED outsideOrchestrator

\* Promise.all fulfils: lines 76-84
BatchResolve ==
  /\ batchPc = "awaiting"
  /\ AllDone
  /\ response' = [statusCode |-> 200,
                  results |-> [i \in DOMAIN items |-> items[i].result[1]],
                  error |-> NoError]
  /\ batchPc' = "returned"
  /\ UNCHANGED <<modelInstance, items, table, now>>
  /\ UNCHANGED outsideOrchestrator

\* Promise.all rejects with the first rejection: lines 86-94
BatchReject ==
  /\ batchPc = "awaiting"
  /\ Rejected
  /\ LET first == CHOOSE i \in DOMAIN items :
                    /\ items[i].pc = "rejected"
                    /\ \A j \in DOMAIN items : items[j].pc = "rejected" => i <= j
     IN response' = [statusCode |-> 500, results |-> <<>>, error |-> items[first].error]
  /\ batchPc' = "returned"
  /\ UNCHANGED <<modelInstance, items, table, now>>
  /\ UNCHANGED outsideOrchestrator

\* time passes while the invocation runs (Date.now() is 1 when it starts)
Tick ==
  /\ batchPc # "idle"
  /\ now < MaxClock
  /\ now' = now + 1
  /\ UNCHANGED <<modelInstance, batchPc, items, response, table>>
  /\ UNCHANGED outsideOrchestrator

OrchInit ==
  /\ modelInstance \in {"model", "null"}
  /\ batchPc = "idle"
  /\ items = <<>>
  /\ response = NoResponseYet
  /\ table = {}
  /\ now = 1

Next ==
  \/ \E ev \in Events : Invoke(ev)
  \/ \E i \in 1..MaxBatch, o \in {"buffer", "fail"} : GetObjectDone(i, o)
  \/ \E i \in 1..MaxBatch, r \in BackendResponses : GenerateContentDone(i, r)
  \/ \E i \in 1..MaxBatch, ok \in BOOLEAN : PutDone(i, ok)
  \/ \E i \in 1..MaxBatch, ok \in BOOLEAN : ErrorPutDone(i, ok)
  \/ BatchResolve
  \/ BatchReject
  \/ Tick

\* ============================================================ Mail Ingestor
LowerLetters == <<"a", "b", "c", "d", "e", "f", "g", "h", "i", "j", "k", "l", "m",
                  "n", "o", "p", "q", "r", "s", "t", "u", "v", "w", "x", "y", "z">>

UpperLetters == <<"A", "B", "C", "D", "E", "F", "G", "H", "I", "J", "K", "L", "M",
                  "N", "O", "P", "Q", "R", "S", "T", "U", "V", "W", "X", "Y", "Z">>

Range(f) == {f[i] : i \in DOMAIN f}

\* String.prototype.toLowerCase on the modelled alphabet
LowerChar(c) ==
  IF c \in Range(UpperLetters)
  THEN LowerLetters[CHOOSE i \in DOMAIN UpperLetters : UpperLetters[i] = c]
  ELSE c

ToLowerCase(s) == [i \in 1..Len(s) |-> LowerChar(s[i])]

DotPdf == <<".", "p", "d", "f">>

\* the complement of the character class of line 86: [a-zA-Z0-9_.-]
SafeChars == Range(LowerLetters) \cup Range(UpperLetters) \cup Range(DigitChar) \cup {"_", ".", "-"}

\* the replacement drops the character instead of writing '_'
SanitizeDropping(f) == SelectSeq(f, LAMBDA c : c \in SafeChars)

\* line 86: filename.replace(/[^a-zA-Z0-9_.-]/g, '_')
Sanitize(f) == [i \in 1..Len(f) |-> IF f[i] \in SafeChars THEN f[i] ELSE "_"]

\* the test looks at the content type alone
IsPdfByTypeOnly(att) == att.contentType = "application/pdf"

\* line 83: the test that retains an attachment
IsPdf(att) ==
  \/ att.contentType = "application/pdf"
  \/ (Truthy(att.filename) /\ IsSuffix(DotPdf, ToLowerCase(att.filename.v)))

AttachmentPrefix == <<"a", "t", "t", "a", "c", "h", "m", "e", "n", "t", "-">>

AttachmentsFolder == <<"a", "t", "t", "a", "c", "h", "m", "e", "n", "t", "s", "/">>

Slash == <<"/">>

\* line 84: attachment.filename || `attachment-${messageId}-${Date.now()}.pdf`
Filename(att, mid, ts) ==
  OrElse(att.filename, Str(AttachmentPrefix \o mid \o Dash \o NumToStr(ts) \o DotPdf)).v

\* the key without the message's folder
AttachmentKeyFlat(att, mid, ts) == AttachmentsFolder \o Sanitize(Filename(att, mid, ts))

\* lines 84-87: `attachments/${messageId}/${safeFilename}`
AttachmentKey(att, mid, ts) ==
  AttachmentsFolder \o mid \o Slash \o Sanitize(Filename(att, mid, ts))

M1 == <<"M", "1">>

InvoicePdf == [contentType |-> "application/pdf", filename |-> Str(<<"i", "n", "v", "o", "i", "c", "e", ".", "p", "d", "f">>)]

LogoPng == [contentType |-> "image/png", filename |-> Str(<<"l", "o", "g", "o", ".", "p", "n", "g">>)]

\* the attachments mailparser can give: a PDF by type and name, an image, a
\* PDF by an upper-case extension alone (with a space in its name), a name
\* that sanitises to the same key, and attachments without a filename
Attachments ==
  { InvoicePdf,
    LogoPng,
    [contentType |-> "application/octet-stream", filename |-> Str(<<"R", " ", "1", ".", "P", "D", "F">>)],
    [contentType |-> "application/pdf", filename |-> Str(<<"R", "_", "1", ".", "P", "D", "F">>)],
    [contentType |-> "application/pdf", filename |-> Undefined],
    [contentType |-> "text/plain", filename |-> Undefined] }

Messages == UNION { [1..n -> Attachments] : n \in 0..MaxAttach }

\* the event records the handler can be given (lines 22-64)
SesRecords ==
  { [hasSes |-> FALSE, hasS3 |-> TRUE, messageId |-> M1, key |-> <<"m">>],
    [hasSes |-> TRUE, hasS3 |-> FALSE, messageId |-> M1, key |-> <<"m">>],
    [hasSes |-> TRUE, hasS3 |-> TRUE, messageId |-> M1, key |-> <<"%", "4">>],
    [hasSes |-> TRUE, hasS3 |-> TRUE, messageId |-> M1, key |-> <<"m">>] }

DefaultAttachmentBucket == <<"e", "m", "a", "i", "l", "-", "a", "t", "t", "a", "c", "h", "m", "e", "n", "t", "s">>

\* line 7: process.env.ATTACHMENT_BUCKET_NAME || the default bucket
AttachmentBucketName(env) == OrElse(env, Str(DefaultAttachmentBucket))

NoIngResponse == [statusCode |-> 0, uploaded |-> 0]

IngReturn(code, n) ==
  /\ ingPc' = "returned"
  /\ ingResponse' = [statusCode |-> code, uploaded |-> n]

\* the handler is invoked: lines 14-69, up to the await of getObject
IngInvoke(rec) ==
  /\ ingPc = "idle"
  /\ IF ~Truthy(attachmentBucket) THEN IngReturn(500, 0)
     ELSE IF ~rec.hasSes THEN IngReturn(400, 0)
     ELSE IF ~rec.hasS3 THEN IngReturn(400, 0)
     ELSE IF DecodeURIComponent(ReplacePlus(rec.key)) = URIError
          THEN ingPc' = "raised" /\ ingResponse' = ingResponse
          ELSE ingPc' = "fetching" /\ ingResponse' = ingResponse
  /\ messageId' = rec.messageId
  /\ UNCHANGED <<attachmentBucket, attachments, parsed, uploads, skipped, blobs, ingNow>>
  /\ UNCHANGED outsideIngestor

\* s3.getObject of the raw message settles (line 69)
IngGetDone(ok) ==
  /\ ingPc = "fetching"
  /\ IF ok THEN ingPc' = "parsing" /\ ingResponse' = ingResponse
     ELSE IngReturn(500, 0)
  /\ UNCHANGED <<attachmentBucket, messageId, attachments, parsed, uploads, skipped, blobs, ingNow>>
  /\ UNCHANGED outsideIngestor

\* the parameters of the putObject of line 92 for attachment j
PutParams(atts, j, mid, ts) ==
  [Key |-> AttachmentKey(atts[j], mid, ts),
   ContentType |-> atts[j].contentType,
   Body |-> j,
   state |-> "pending"]

\* lines 79-102: the loop, which issues one putObject per retained attachment
RECURSIVE UploadLoop(_, _, _, _)
UploadLoop(atts, j, mid, ts) ==
  IF j > Len(atts) THEN <<>>
  ELSE (IF IsPdf(atts[j]) THEN <<PutParams(atts, j, mid, ts)>> ELSE <<>>)
       \o UploadLoop(atts, j + 1, mid, ts)

SkippedBy(atts) == Cardinality({j \in DOMAIN atts : ~IsPdf(atts[j])})

\* simpleParser settles (line 72) and, on a parsed message, the loop runs
\* (lines 74-111); a message without a From or To header fails at line 75
IngParseDone(outcome, msg) ==
  /\ ingPc = "parsing"
  /\ IF outcome # "parsed"
     THEN /\ IngReturn(500, 0)
          /\ UNCHANGED <<attachments, parsed, uploads, skipped>>
     ELSE LET ups == UploadLoop(msg, 1, messageId, ingNow)
          IN /\ attachments' = msg
             /\ parsed' = TRUE
             /\ uploads' = ups
             /\ skipped' = SkippedBy(msg)
             /\ IF ups = <<>> THEN IngReturn(200, 0)
                ELSE ingPc' = "uploading" /\ ingResponse' = ingResponse
  /\ UNCHANGED <<attachmentBucket, messageId, blobs, ingNow>>
  /\ UNCHANGED outsideIngestor

UploadFailed == \E k \in DOMAIN uploads : uploads[k].state = "failed"

AllUploaded == \A k \in DOMAIN uploads : uploads[k].state = "ok"

\* Promise.all of line 105 has settled and its continuation is queued
IngContinuationQueued == ingPc = "uploading" /\ (UploadFailed \/ AllUploaded)

\* s3.putObject: upsert by Key
PutObject(bkt, u) ==
  {b \in bkt : b.Key # u.Key} \cup {[Key |-> u.Key, ContentType |-> u.ContentType, Body |-> u.Body]}

\* one putObject settles (lines 92-97)
IngPutDone(k, ok) ==
  /\ ingPc \in {"uploading", "returned"} /\ ~IngContinuationQueued
  /\ k \in DOMAIN uploads
  /\ uploads[k].state = "pending"
  /\ uploads' = [uploads EXCEPT ![k].state = IF ok THEN "ok" ELSE "failed"]
  /\ blobs' = IF ok THEN PutObject(blobs, uploads[k]) ELSE blobs
  /\ UNCHANGED <<attachmentBucket, ingPc, messageId, attachments, parsed, skipped, ingResponse, ingNow>>
  /\ UNCHANGED outsideIngestor

\* Promise.all fulfils: lines 105-111
IngResolve ==
  /\ ingPc = "uploading"
  /\ AllUploaded
  /\ IngReturn(200, Len(uploads))
  /\ UNCHANGED <<attachmentBucket, messageId, attachments, parsed, uploads, skipped, blobs, ingNow>>
  /\ UNCHANGED outsideIngestor

\* the failed putObject is set aside and the others are reported as uploaded
IngRejectAsPartialSuccess ==
  /\ ingPc = "uploading"
  /\ UploadFailed
  /\ IngReturn(200, Cardinality({k \in DOMAIN uploads : uploads[k].state = "ok"}))
  /\ UNCHANGED <<attachmentBucket, messageId, attachments, parsed, uploads, skipped, blobs, ingNow>>
  /\ UNCHANGED outsideIngestor

\* Promise.all rejects with the first failed putObject: lines 113-116
IngReject ==
  /\ ingPc = "uploading"
  /\ UploadFailed
  /\ IngReturn(500, 0)
  /\ UNCHANGED <<attachmentBucket, messageId, attachments, parsed, uploads, skipped, blobs, ingNow>>
  /\ UNCHANGED outsideIngestor

\* time passes before the message is parsed
IngTick ==
  /\ ingPc \in {"fetching", "parsing"}
  /\ ingNow < MaxClock
  /\ ingNow' = ingNow + 1
  /\ UNCHANGED <<attachmentBucket, ingPc, messageId, attachments, parsed, uploads, skipped, blobs, ingResponse>>
  /\ UNCHANGED outsideIngestor

IngInit ==
  /\ attachmentBucket \in {AttachmentBucketName(env) : env \in {Undefined, Str(<<"b", "k", "t">>)}}
  /\ ingPc = "idle"
  /\ messageId = <<>>
  /\ attachments = <<>>
  /\ parsed = FALSE
  /\ uploads = <<>>
  /\ skipped = 0
  /\ blobs = {}
  /\ ingResponse = NoIngResponse
  /\ ingNow = 1

\* the ingestor before any invocation, for the other specifications
IngIdle ==
  /\ attachmentBucket = AttachmentBucketName(Undefined)
  /\ ingPc = "idle"
  /\ messageId = <<>>
  /\ attachments = <<>>
  /\ parsed = FALSE
  /\ uploads = <<>>
  /\ skipped = 0
  /\ blobs = {}
  /\ ingResponse = NoIngResponse
  /\ ingNow = 1

\* the orchestrator before any invocation, for the other specifications
OrchIdle ==
  /\ modelInstance = "model"
  /\ batchPc = "idle"
  /\ items = <<>>
  /\ response = NoResponseYet
  /\ table = {}
  /\ now = 1

\* ------------------------------------------------- the filename sanitiser
SanAlphabet == {"a", "Z", "0", "_", ".", "-", " ", "/"}

Filenames == UNION { [1..n -> SanAlphabet] : n \in 0..MaxLen }

SanIdle ==
  /\ sanPc = "input"
  /\ sanIn = <<>>
  /\ sanOnce = <<>>
  /\ sanTwice = <<>>

SanInit ==
  /\ sanPc = "input"
  /\ sanIn \in Filenames
  /\ sanOnce = <<>>
  /\ sanTwice = <<>>

\* safeFilename = sanitise(filename)
SanApply ==
  /\ sanPc = "input"
  /\ sanOnce' = Sanitize(sanIn)
  /\ sanPc' = "once"
  /\ UNCHANGED <<sanIn, sanTwice>>
  /\ UNCHANGED outsideSanitizer

\* the sanitised filename is sanitised again
SanApplyAgain ==
  /\ sanPc = "once"
  /\ sanTwice' = Sanitize(sanOnce)
  /\ sanPc' = "twice"
  /\ UNCHANGED <<sanIn, sanOnce>>
  /\ UNCHANGED outsideSanitizer

\* ------------------------------------------- Query Service (index.js)
\* pdfProcessorGenAI.js:206, the table saveToDynamo writes to when
\* INVOICE_TABLE_NAME is not set
WriterDefaultTable == <<"I", "n", "v", "o", "i", "c", "e", "T", "a", "b", "l", "e">>

\* index.js:9, the table the Query Service reads when it is not set
ReaderDefaultTable == WriterDefaultTable \o <<"-", "d", "e", "v", "1">>

\* serverless.yml: InvoiceTable-${self:provider.stage}, stage dev1
DeployedTable == WriterDefaultTable \o <<"-", "d", "e", "v", "1">>

TableNames == {WriterDefaultTable, ReaderDefaultTable, DeployedTable}

\* process.env.INVOICE_TABLE_NAME: not set, or set as serverless.yml sets it
TableEnvs == {Undefined, Str(DeployedTable)}

\* pdfProcessorGenAI.js:206
WriterTableName(env) == OrElse(env, Str(WriterDefaultTable)).v

\* index.js:9
ReaderTableName(env) == OrElse(env, Str(ReaderDefaultTable)).v

\* the records saveToDynamo is called with: invoice records and Error Records
\* as processEmail builds them
QRecords ==
  { ItemToSave([invoiceId |-> Str(INV42), TicketId |-> Undefined], "b1", <<"a">>, 1),
    ItemToSave([invoiceId |-> Str(INV42), TicketId |-> Undefined], "b1", <<"b">>, 1),
    ItemToSave(NoObject, "b1", <<"a">>, 1),
    ErrorRecord("b1", <<"a">>, Msg("The specified key does not exist.", ""), 1) }

ListAll == <<"a", "l", "l">>

\* API Gateway events: the method, the path, pathParameters.ticketId and
\* queryStringParameters.list (undefined when the member or its parent is
\* missing)
QEvents ==
  [httpMethod : {"OPTIONS", "GET", "POST"},
   path : {"/invoices", "/invoices/{ticketId}", "/other"},
   ticketId : {Undefined, Str(INV42), Str(<<"T", "-", "9">>)},
   list : {Undefined, Str(ListAll), Str(<<"n", "o">>)}]

NoEvent == [httpMethod |-> "", path |-> "", ticketId |-> Undefined, list |-> Undefined]

\* the body of a response: the error message (a sequence of words), the
\* record of a lookup, the records and the count of a list
NoBody == [message |-> "", error |-> <<>>, item |-> <<>>, listed |-> FALSE, items |-> {}, count |-> 0]

NoQResponse == [statusCode |-> 0, body |-> NoBody]

\* lines 12-23
createResponse(statusCode, body) == [statusCode |-> statusCode, body |-> body]

\* line 37: `Unsupported method: ${httpMethod}`
UnsupportedMethod(httpMethod) == <<"Unsupported", "method:", httpMethod>>

\* line 57: `Invoice with TicketId ${ticketId} not found.`
NotFound(ticketId) == <<"Invoice", "with", "TicketId", ticketId, "not", "found.">>

\* line 84
InvalidRequest ==
  <<"Invalid", "request", "path", "or", "parameters.", "Try",
    "/invoices/{ticketId}", "or", "/invoices?list=all">>

\* line 88
InternalServerError == <<"Internal", "server", "error.">>

\* the list branch is tested before the lookup branch
RouteListFirst(ev) ==
  CASE ev.httpMethod = "OPTIONS" -> "preflight"
    [] ev.httpMethod # "GET" -> "method"
    [] ev.path = "/invoices" \/ ev.list = Str(ListAll) -> "list"
    [] Truthy(ev.ticketId) -> "lookup"
    [] OTHER -> "invalid"

\* the method test of line 36 comes first: OPTIONS is one more unsupported
\* method
RouteNoPreflight(ev) ==
  CASE ev.httpMethod # "GET" -> "method"
    [] Truthy(ev.ticketId) -> "lookup"
    [] ev.path = "/invoices" \/ ev.list = Str(ListAll) -> "list"
    [] OTHER -> "invalid"

\* a GET request of no supported shape lists all records
RouteListByDefault(ev) ==
  CASE ev.httpMethod = "OPTIONS" -> "preflight"
    [] ev.httpMethod # "GET" -> "method"
    [] Truthy(ev.ticketId) -> "lookup"
    [] OTHER -> "list"

\* the if-chain of lines 31, 36, 42, 62, 83
Route(ev) ==
  CASE ev.httpMethod = "OPTIONS" -> "preflight"
    [] ev.httpMethod # "GET" -> "method"
    [] Truthy(ev.ticketId) -> "lookup"
    [] ev.path = "/invoices" \/ ev.list = Str(ListAll) -> "list"
    [] OTHER -> "invalid"

QReturn(statusCode, body) ==
  /\ qPc' = "returned"
  /\ qResponse' = createResponse(statusCode, body)

\* saveToDynamo (pdfProcessorGenAI.js:208-217): db.put into the writer's
\* table
QSave(rec) ==
  /\ db' = [db EXCEPT ![WriterTableName(tableEnv)] = Put(@, rec)]
  /\ UNCHANGED <<tableEnv, qPc, qEvent, qResponse, qReads>>
  /\ UNCHANGED outsideQuery

\* the handler is invoked: lines 25-85, up to the await of db.get or
\* db.scan
QInvoke(ev) ==
  /\ qPc \in {"idle", "returned"}
  /\ qEvent' = ev
  /\ LET route == Route(ev)
     IN CASE route = "preflight" ->
               /\ QReturn(200, [NoBody EXCEPT !.message = "CORS preflight successful"])
               /\ qReads' = 0
          [] route = "method" ->
               /\ QReturn(405, [NoBody EXCEPT !.error = UnsupportedMethod(ev.httpMethod)])
               /\ qReads' = 0
          [] route = "lookup" ->
               /\ qPc' = "getting"
               /\ qResponse' = NoQResponse
               /\ qReads' = 1
          [] route = "list" ->
               /\ qPc' = "scanning"
               /\ qResponse' = NoQResponse
               /\ qReads' = 1
          [] OTHER ->
               /\ QReturn(400, [NoBody EXCEPT !.error = InvalidRequest])
               /\ qReads' = 0
  /\ UNCHANGED <<tableEnv, db>>
  /\ UNCHANGED outsideQuery

\* db.get settles: lines 52-58, or the catch of lines 86-89
QGetDone(ok) ==
  /\ qPc = "getting"
  /\ LET found == {r \in db[ReaderTableName(tableEnv)] : r.TicketId = qEvent.ticketId}
     IN IF ~ok THEN QReturn(500, [NoBody EXCEPT !.error = InternalServerError])
        ELSE IF found # {}
             THEN QReturn(200, [NoBody EXCEPT !.item = <<CHOOSE r \in found : TRUE>>])
             ELSE QReturn(404, [NoBody EXCEPT !.error = NotFound(qEvent.ticketId.v)])
  /\ UNCHANGED <<tableEnv, db, qEvent, qReads>>
  /\ UNCHANGED outsideQuery

\* db.scan settles: lines 72-81, or the catch of lines 86-89
QScanDone(ok) ==
  /\ qPc = "scanning"
  /\ LET all == db[ReaderTableName(tableEnv)]
     IN IF ~ok THEN QReturn(500, [NoBody EXCEPT !.error = InternalServerError])
        ELSE QReturn(200, [NoBody EXCEPT !.listed = TRUE,
                                         !.items = all,
                                         !.count = Cardinality(all),
                                         !.message = "Full scan executed. Implement pagination for production."])
  /\ UNCHANGED <<tableEnv, db, qEvent, qReads>>
  /\ UNCHANGED outsideQuery

QryInit ==
  /\ tableEnv \in TableEnvs
  /\ db = [n \in TableNames |-> {}]
  /\ qPc = "idle"
  /\ qEvent = NoEvent
  /\ qResponse = NoQResponse
  /\ qReads = 0

\* the query service before any invocation, for the other specifications
QryIdle ==
  /\ tableEnv = Str(DeployedTable)
  /\ db = [n \in TableNames |-> {}]
  /\ qPc = "idle"
  /\ qEvent = NoEvent
  /\ qResponse = NoQResponse
  /\ qReads = 0

\* ---------------------------------------------------------- specifications
Init == OrchInit /\ IngIdle /\ SanIdle /\ QryIdle

Spec == Init /\ [][Next]_vars

InitIngest == OrchIdle /\ IngInit /\ SanIdle /\ QryIdle

NextIngest ==
  \/ \E rec \in SesRecords : IngInvoke(rec)
  \/ \E ok \in BOOLEAN : IngGetDone(ok)
  \/ \E o \in {"parsed", "parseError", "noFromHeader"}, msg \in Messages : IngParseDone(o, msg)
  \/ \E k \in 1..MaxAttach, ok \in BOOLEAN : IngPutDone(k, ok)
  \/ IngResolve
  \/ IngReject
  \/ IngTick

SpecIngest == InitIngest /\ [][NextIngest]_vars

InitSanitize == OrchIdle /\ IngIdle /\ SanInit /\ QryIdle

NextSanitize == SanApply \/ SanApplyAgain

SpecSanitize == InitSanitize /\ [][NextSanitize]_vars

InitQuery == OrchIdle /\ IngIdle /\ SanIdle /\ QryInit

NextQuery ==
  \/ \E rec \in QRecords : QSave(rec)
  \/ \E ev \in QEvents : QInvoke(ev)
  \/ \E ok \in BOOLEAN : QGetDone(ok)
  \/ \E ok \in BOOLEAN : QScanDone(ok)

SpecQuery == InitQuery /\ [][NextQuery]_vars

\* ====================================================== Pipeline Orchestrator
Items == DOMAIN items

Failed(i) == items[i].error # NoError

\* C1: when processEmail returns, every item of the batch has finished
\* (its promise fulfilled with an outcome); none is rejected or in flight.
C1_AllFinishedBeforeReturn ==
  batchPc = "returned" => \A i \in Items : items[i].pc = "done"

\* C2: a batch with failed items returns statusCode 200 with one outcome per
\* event record, success = FALSE for exactly the failed items.
C2_HandledBatch ==
  batchPc = "returned" =>
    /\ response.statusCode = 200
    /\ Len(response.results) = Len(items)
    /\ \A i \in Items : response.results[i].success = ~Failed(i)

\* C3: every record in the table, and every record handed to saveToDynamo,
\* has a TicketId that is a non-empty string.
C3_TicketIdNonEmpty ==
  /\ \A r \in table : r.TicketId.t = "string" /\ Len(r.TicketId.v) > 0
  /\ \A i \in Items : \A k \in DOMAIN items[i].pending :
       items[i].pending[k].TicketId.t = "string" /\ Len(items[i].pending[k].TicketId.v) > 0

C3_Witness ==
  /\ \E r \in table : r.Status = ErrorProcessingFailed
  /\ \E r \in table : r.Status = NoStatus /\ r.invoiceId = Str(<<>>)

InvoiceRecords == {r \in table : r.Status = NoStatus}

\* C4: a persisted invoice record has TicketId = invoiceId when invoiceId is
\* a non-empty string, and otherwise "fallback-" key "-" timestamp; the
\* payload's own TicketId is never the one persisted.
C4_TicketIdFromInvoiceId ==
  \A r \in InvoiceRecords :
    /\ (r.invoiceId.t = "string" /\ r.invoiceId.v # <<>>) => r.TicketId = r.invoiceId
    /\ ~(r.invoiceId.t = "string" /\ r.invoiceId.v # <<>>) =>
         /\ r.TicketId.t = "string"
         /\ \E ts \in 1..MaxClock :
              r.TicketId.v = <<"f", "a", "l", "l", "b", "a", "c", "k", "-">> \o r.S3Key \o <<"-">> \o NumToStr(ts)
         /\ Contains(r.TicketId.v, r.S3Key)
    /\ r.TicketId.v # OwnTicket

C4_Witness ==
  /\ \E r \in InvoiceRecords : r.TicketId = Str(INV42)
  /\ \E r \in InvoiceRecords : r.invoiceId = Undefined /\ r.S3Key = <<"a", " ", "A">> /\ IsPrefix(FallbackPrefix, r.TicketId.v)
  /\ \E i \in Items : items[i].pc = "done" /\ items[i].result[1].success

\* C5: an item that failed at the blob fetch, the extraction or the invoice
\* write has exactly one Error Record write attempted, with Status
\* "Error-ProcessingFailed", a TicketId "error-..." containing the key, and
\* the item's bucket and key; an item that has not failed has none.
C5_OneErrorRecord ==
  \A i \in Items :
    /\ items[i].pc \in {"fetching", "extracting", "saving"} => items[i].nErrPut = 0
    /\ (items[i].pc = "done" /\ items[i].result[1].success) => items[i].nErrPut = 0
    /\ (items[i].pc = "done" /\ ~items[i].result[1].success) => items[i].nErrPut = 1
    /\ items[i].pc = "savingError" =>
         /\ items[i].nErrPut = 1
         /\ Len(items[i].pending) = 1
         /\ LET r == items[i].pending[1]
            IN /\ r.Status = "Error-ProcessingFailed"
               /\ r.TicketId.t = "string"
               /\ IsPrefix(<<"e", "r", "r", "o", "r", "-">>, r.TicketId.v)
               /\ Contains(SubSeq(r.TicketId.v, 7, Len(r.TicketId.v)), items[i].key)
               /\ r.S3Bucket = items[i].bucket
               /\ r.S3Key = items[i].key

\* failures at each of the three stages, and a success, in one batch or another
C5_Witness ==
  /\ \E i \in Items : items[i].pc = "savingError" /\ items[i].nPut = 1
  /\ \E i \in Items : items[i].pc = "done" /\ items[i].result[1].success

C6_Step(i) ==
  ErrorPutDone(i, FALSE) =>
    /\ items'[i].pc = "done"
    /\ ~items'[i].result[1].success
    /\ items'[i].nErrPut = items[i].nErrPut
    /\ \A j \in Items \ {i} : items'[j] = items[j]
    /\ batchPc' = batchPc /\ response' = response /\ table' = table

ErrorRecordLost(i) ==
  /\ items[i].pc = "done"
  /\ ~items[i].result[1].success
  /\ \A r \in table : r.TicketId # items[i].result[1].ticketId

\* C6: when the put of an Error Record fails, the item's promise is still
\* fulfilled with a failed outcome, no further put is issued for it, the
\* sibling items, the table and the batch are left as they were, and a batch
\* whose items have all finished returns 200 with that failed outcome.
C6_ErrorPutFailureOnlyLogged ==
  /\ [][\A i \in 1..MaxBatch : C6_Step(i)]_vars
  /\ [](\A i \in Items : ErrorRecordLost(i) =>
          /\ items[i].nErrPut = 1
          /\ (batchPc = "returned" /\ AllDone) =>
               /\ response.statusCode = 200
               /\ response.results[i].success = FALSE)

C6_Witness ==
  /\ batchPc = "returned"
  /\ response.statusCode = 200
  /\ \E i \in Items : ErrorRecordLost(i)
  /\ \E j \in Items : items[j].result[1].success

C7_Step(i, r) ==
  GenerateContentDone(i, r) =>
    /\ r.kind # "object" => items'[i].pc = "savingError"
    /\ r.blockReason # "undefined" => Includes(items'[i].error, r.blockReason)

\* C7: processPDFWithGemini gives no record when the model is not
\* configured or the backend's response is empty, not JSON or a decline,
\* and the error of a decline names the block reason the backend supplied.
C7_ExtractionErrors ==
  /\ [][\A i \in 1..MaxBatch : \A r \in BackendResponses : C7_Step(i, r)]_vars
  /\ [](modelInstance = "null" => \A i \in Items : items[i].nGen = 0 /\ items[i].nPut = 0)

\* ======================================================= Mail Ingestor: claims
\* an attachment is a PDF: its content type is application/pdf, or its
\* filename ends in ".pdf" in any letter case
PdfAttachment(att) ==
  \/ att.contentType = "application/pdf"
  \/ /\ att.filename.t = "string"
     /\ LET f == att.filename.v
            n == Len(f)
        IN /\ n >= 4
           /\ f[n - 3] = "."
           /\ f[n - 2] \in {"p", "P"}
           /\ f[n - 1] \in {"d", "D"}
           /\ f[n] \in {"f", "F"}

PdfIndexes == {j \in DOMAIN attachments : PdfAttachment(attachments[j])}

UploadKeys == {uploads[k].Key : k \in DOMAIN uploads}

Stored200 == ingPc = "returned" /\ ingResponse.statusCode = 200 /\ parsed

\* C8 as stated: a message with N PDF and M other attachments gets N
\* storage writes, M skips, and exactly N blobs stored.
C8_ExactlyNBlobs ==
  Stored200 =>
    /\ Len(uploads) = Cardinality(PdfIndexes)
    /\ skipped = Len(attachments) - Cardinality(PdfIndexes)
    /\ Cardinality(blobs) = Cardinality(PdfIndexes)

\* C8 as amended: once the message is parsed, one storage write has been
\* issued per PDF attachment, in attachment order, and none for the others,
\* which are skipped; when the call returns 200 the blobs stored are one per
\* distinct key among those writes, N of them when the N keys differ.
C8_OneWritePerPdf ==
  parsed =>
    /\ Len(uploads) = Cardinality(PdfIndexes)
    /\ skipped = Len(attachments) - Cardinality(PdfIndexes)
    /\ {uploads[k].Body : k \in DOMAIN uploads} = PdfIndexes
    /\ \A k, l \in DOMAIN uploads : k < l => uploads[k].Body < uploads[l].Body
    /\ Stored200 =>
         /\ Cardinality(blobs) = Cardinality(UploadKeys)
         /\ Cardinality(blobs) <= Cardinality(PdfIndexes)
         /\ (Cardinality(UploadKeys) = Len(uploads)) => Cardinality(blobs) = Cardinality(PdfIndexes)

\* three attachments, two of them PDF by the filename or the type, whose
\* sanitised filenames coincide, and one that is skipped
C8_Witness ==
  /\ Stored200
  /\ Len(attachments) = 3
  /\ skipped = 1
  /\ Len(uploads) = 2
  /\ Cardinality(blobs) = 1
  /\ \E j \in DOMAIN attachments : attachments[j].contentType = "application/octet-stream"

\* the filename the claim gives attachment att: the declared one, or
\* attachment-<messageId>-<timestamp>.pdf for some timestamp
ClaimedNames(att) ==
  IF att.filename.t = "string" /\ att.filename.v # <<>>
  THEN {att.filename.v}
  ELSE {<<"a", "t", "t", "a", "c", "h", "m", "e", "n", "t", "-">> \o messageId \o <<"-">>
          \o NumToStr(ts) \o <<".", "p", "d", "f">> : ts \in 1..MaxClock}

\* safe is name with every character outside [A-Za-z0-9_.-] replaced by "_"
Replaced(name, safe) ==
  /\ Len(safe) = Len(name)
  /\ \A p \in 1..Len(name) : safe[p] = IF name[p] \in SafeChars THEN name[p] ELSE "_"

KeyOf(safe) ==
  <<"a", "t", "t", "a", "c", "h", "m", "e", "n", "t", "s", "/">> \o messageId \o <<"/">> \o safe

WrittenAsClaimed(u) ==
  /\ u.Body \in DOMAIN attachments
  /\ u.ContentType = attachments[u.Body].contentType
  /\ \E name \in ClaimedNames(attachments[u.Body]) :
       /\ Len(u.Key) = Len(KeyOf(name))
       /\ Replaced(name, SubSeq(u.Key, Len(KeyOf(<<>>)) + 1, Len(u.Key)))
       /\ SubSeq(u.Key, 1, Len(KeyOf(<<>>))) = KeyOf(<<>>)

InvoiceKey ==
  <<"a", "t", "t", "a", "c", "h", "m", "e", "n", "t", "s", "/", "M", "1", "/",
    "i", "n", "v", "o", "i", "c", "e", ".", "p", "d", "f">>

LogoKey ==
  <<"a", "t", "t", "a", "c", "h", "m", "e", "n", "t", "s", "/", "M", "1", "/",
    "l", "o", "g", "o", ".", "p", "n", "g">>

\* C9: every putObject, and every blob stored, has the key
\* attachments/<messageId>/<sanitised filename> and the attachment's content
\* type; of invoice.pdf and logo.png in message M1 only
\* attachments/M1/invoice.pdf is stored.
C9_KeyAndContentType ==
  /\ \A k \in DOMAIN uploads : WrittenAsClaimed(uploads[k])
  /\ \A b \in blobs : \E k \in DOMAIN uploads :
       /\ uploads[k].state = "ok"
       /\ b = [Key |-> uploads[k].Key, ContentType |-> uploads[k].ContentType, Body |-> uploads[k].Body]
  /\ (Stored200 /\ messageId = M1 /\ {InvoicePdf, LogoPng} \subseteq Range(attachments)) =>
       /\ \E b \in blobs : b.Key = InvoiceKey /\ b.ContentType = "application/pdf"
       /\ \A b \in blobs : b.Key # LogoKey

\* invoice.pdf, logo.png and a PDF without a filename, all stored or skipped
C9_Witness ==
  /\ Stored200
  /\ {InvoicePdf, LogoPng} \subseteq Range(attachments)
  /\ \E j \in DOMAIN attachments : attachments[j].filename = Undefined /\ attachments[j].contentType = "application/pdf"
  /\ Cardinality(blobs) = 2
  /\ \E b \in blobs : Contains(b.Key, <<"_">>) \/ Contains(b.Key, <<"a", "t", "t", "a", "c", "h", "m", "e", "n", "t", "-">>)

\* C10: sanitising a sanitised filename changes nothing, and sanitising
\* keeps the length of the filename.
C10_SanitizeIdempotent ==
  /\ sanPc \in {"once", "twice"} => Len(sanOnce) = Len(sanIn)
  /\ sanPc = "twice" => sanTwice = sanOnce

C10_Witness ==
  /\ sanPc = "twice"
  /\ Len(sanIn) = MaxLen
  /\ \E p \in DOMAIN sanIn : sanIn[p] = "/"
  /\ \E p \in DOMAIN sanIn : sanIn[p] = " "
  /\ sanOnce # sanIn

\* C11: a message that fails to parse, or one of whose storage writes fails,
\* makes the ingest call return 500: a returned call with a failed write has
\* the 500 result, a call that returned before the attachments were looped
\* over has no success result and has written nothing, and a 200 result is
\* returned only with every write of the message done.
C11_IngestFailsAsAWhole ==
  ingPc = "returned" =>
    /\ ingResponse.statusCode = 200 =>
         /\ parsed
         /\ \A k \in DOMAIN uploads : uploads[k].state = "ok"
         /\ ingResponse.uploaded = Len(uploads)
    /\ UploadFailed => ingResponse.statusCode = 500 /\ ingResponse.uploaded = 0
    /\ ~parsed =>
         /\ ingResponse.statusCode \in {400, 500}
         /\ uploads = <<>>
         /\ blobs = {}

\* one write of three failed, another one is stored, and the result is 500
C11_Witness ==
  /\ ingPc = "returned"
  /\ ingResponse.statusCode = 500
  /\ Len(uploads) = 3
  /\ \E k \in DOMAIN uploads : uploads[k].state = "failed"
  /\ \E k \in DOMAIN uploads : uploads[k].state = "ok"
  /\ blobs # {}

ErrorPersisted(i) ==
  \E r \in table : r.TicketId = Str(items[i].errorTicketId) /\ r.Status = ErrorProcessingFailed

\* the invoice record item i reported is in the store
Persisted(i) ==
  \E r \in table : r.TicketId = items[i].result[1].ticketId /\ r.Status = NoStatus

\* C16: every item follows the per-item state machine: the blob read
\* precedes the extraction, the extraction precedes the invoice-record
\* write, an item that succeeds ends with its invoice record stored, an item
\* that fails ends with its Error Record stored, and no item ends otherwise.
C16_PerItemStateMachine ==
  \A i \in Items :
    /\ items[i].pc # "rejected"
    /\ items[i].nCall > 0 => items[i].nGet > 0
    /\ items[i].nPut > 0 => items[i].nGen > 0
    /\ items[i].pc = "done" =>
         IF Failed(i) THEN ErrorPersisted(i) ELSE Persisted(i)

\* at most one blob read, one invoice-record write and one error-record
\* write per item
AtMostOneAttempt(i) ==
  /\ items[i].nGet <= 1
  /\ items[i].nCall <= 1
  /\ items[i].nPut <= 1
  /\ items[i].nErrPut <= 1

WrittenByAnItem(r) ==
  \E i \in Items :
    /\ items[i].pc \in {"saving", "savingError"}
    /\ items[i].pending = <<r>>

C20_AtMostOneRecordPerItem ==
  \A i \in Items :
    /\ items[i].nWritten <= 1
    /\ items[i].nWritten <= items[i].nPut + items[i].nErrPut
    /\ (items[i].result # <<>> /\ items[i].result[1].success) =>
         /\ items[i].nWritten = 1
         /\ items[i].nPut = 1
         /\ items[i].nErrPut = 0
         /\ \E r \in table :
              /\ r.TicketId = items[i].result[1].ticketId
              /\ r.Status = NoStatus
    /\ (items[i].result # <<>> /\ ~items[i].result[1].success) =>
         \A r \in table :
           (r.S3Key = items[i].key /\ r.Status = NoStatus) =>
             \E j \in Items : j # i /\ items[j].key = items[i].key

\* one item succeeded with its record stored, and its sibling's invoice
\* put failed and its Error Record put completed: one record each
C20_Witness ==
  \E i, j \in Items :
    /\ items[i].result # <<>> /\ items[i].result[1].success
    /\ items[i].nWritten = 1
    /\ items[j].pc = "done" /\ items[j].nPut = 1 /\ items[j].nErrPut = 1
    /\ items[j].nWritten = 1
    /\ ErrorPersisted(j)

\* ======================================================= Query Service: claims
\* the request shapes, as the claims name them
IsPreflight(ev) == ev.httpMethod = "OPTIONS"

HasTicketId(ev) == ev.ticketId \in {Str(INV42), Str(<<"T", "-", "9">>)}

AsksListAll(ev) == ev.path = "/invoices" \/ ev.list = Str(ListAll)

IsLookup(ev) == ev.httpMethod = "GET" /\ HasTicketId(ev)

\* the table the Query Service reads
ReaderTable == db[ReaderTableName(tableEnv)]

\* a response body without a record in it
NoRecordBody(body) == body.item = <<>> /\ body.items = {} /\ ~body.listed

\* a lookup is answered from the table as it is when db.get settles
C13_GetStep ==
  \A ok \in BOOLEAN :
    QGetDone(ok) =>
      LET stored == {r \in ReaderTable : r.TicketId = qEvent.ticketId}
      IN /\ qPc' = "returned"
         /\ (ok /\ stored = {}) =>
              qResponse'.statusCode = 404 /\ NoRecordBody(qResponse'.body)
         /\ (ok /\ stored # {}) =>
              /\ qResponse'.statusCode = 200
              /\ \E r \in stored : qResponse'.body.item = <<r>>
              /\ Cardinality(stored) = 1
              /\ ~qResponse'.body.listed /\ qResponse'.body.items = {}
         /\ ~ok => qResponse'.statusCode = 500 /\ NoRecordBody(qResponse'.body)

\* a GET with a ticketId is a lookup, whatever else it asks for
C13_InvokeStep ==
  \A ev \in QEvents :
    (QInvoke(ev) /\ IsLookup(ev)) => qPc' = "getting" /\ qReads' = 1

\* C13: a lookup by id (GET with path parameter ticketId) whose read of the
\* table completes returns 404 without a record body when the id is absent
\* and 200 with exactly the stored record when it is present; a request
\* that also asks for list-all is still answered as a lookup.
C13_LookupById ==
  /\ [][C13_GetStep /\ C13_InvokeStep]_vars
  /\ [](qPc = "getting" => IsLookup(qEvent))
  /\ [](qPc = "scanning" => ~IsLookup(qEvent))

\* a lookup of INV-42 that also asks for list-all, with another record in
\* the table, has returned the record of INV-42
C13_Witness ==
  /\ qPc = "returned"
  /\ IsLookup(qEvent) /\ AsksListAll(qEvent)
  /\ qEvent.ticketId = Str(INV42)
  /\ qResponse.statusCode = 200
  /\ qResponse.body.item # <<>>
  /\ qResponse.body.item[1].TicketId = Str(INV42)
  /\ Cardinality(ReaderTable) >= 2

\* C14: an OPTIONS request returns 200 at once, whatever its path and
\* parameters and whatever the tables hold or the store would answer, and
\* issues no db.get and no db.scan.
C14_PreflightNoStoreAccess ==
  /\ [][\A ev \in QEvents :
          (QInvoke(ev) /\ IsPreflight(ev)) =>
            /\ qPc' = "returned"
            /\ qResponse'.statusCode = 200
            /\ qReads' = 0
            /\ db' = db]_vars
  /\ [](IsPreflight(qEvent) =>
          /\ qPc = "returned"
          /\ qResponse.statusCode = 200
          /\ NoRecordBody(qResponse.body)
          /\ qReads = 0)

\* an OPTIONS request shaped as a lookup and as a list, with records in
\* the table, has returned
C14_Witness ==
  /\ qPc = "returned"
  /\ IsPreflight(qEvent) /\ HasTicketId(qEvent) /\ AsksListAll(qEvent)
  /\ ReaderTable # {}
  /\ qResponse.statusCode = 200
  /\ qReads = 0

\* the claim as stated: a request that is no pre-flight, has no ticketId
\* and asks for no list gets a client error that names the two supported
\* shapes, without store access
C15_OtherShapesNameBoth ==
  (/\ qPc = "returned"
   /\ ~IsPreflight(qEvent) /\ ~HasTicketId(qEvent) /\ ~AsksListAll(qEvent)) =>
    /\ qResponse.statusCode \in 400..499
    /\ Contains(qResponse.body.error, <<"/invoices/{ticketId}">>)
    /\ Contains(qResponse.body.error, <<"/invoices?list=all">>)
    /\ qReads = 0

\* C15: a GET request that is neither a lookup by id nor a list-all gets
\* 400 with a message that names the two supported shapes; a request whose
\* method is neither GET nor OPTIONS gets 405 with a message that names
\* the method and not the shapes, whatever its path and parameters;
\* neither issues a db.get or a db.scan.
C15_ClientErrors ==
  qPc = "returned" =>
    /\ (qEvent.httpMethod = "GET" /\ ~HasTicketId(qEvent) /\ ~AsksListAll(qEvent)) =>
         /\ qResponse.statusCode = 400
         /\ Contains(qResponse.body.error, <<"/invoices/{ticketId}">>)
         /\ Contains(qResponse.body.error, <<"/invoices?list=all">>)
         /\ NoRecordBody(qResponse.body)
         /\ qReads = 0
    /\ qEvent.httpMethod \notin {"GET", "OPTIONS"} =>
         /\ qResponse.statusCode = 405
         /\ Contains(qResponse.body.error, <<qEvent.httpMethod>>)
         /\ ~Contains(qResponse.body.error, <<"/invoices/{ticketId}">>)
         /\ ~Contains(qResponse.body.error, <<"/invoices?list=all">>)
         /\ NoRecordBody(qResponse.body)
         /\ qReads = 0
    /\ qResponse.statusCode \in {400, 405} => qReads = 0

\* a GET of /other with list=no has returned 400, with records in the table
C15_Witness ==
  /\ qPc = "returned"
  /\ qEvent.httpMethod = "GET" /\ qEvent.path = "/other"
  /\ qEvent.list = Str(<<"n", "o">>) /\ qEvent.ticketId = Undefined
  /\ qResponse.statusCode = 400
  /\ ReaderTable # {}

\* the table saveToDynamo writes to
WriterTable == db[WriterTableName(tableEnv)]

\* a lookup that completes returns the record the writer has stored under
\* the id, and a list that completes holds every record the writer stored
C19_ReadStep ==
  /\ QGetDone(TRUE) =>
       \A r \in WriterTable :
         r.TicketId = qEvent.ticketId =>
           qResponse'.statusCode = 200 /\ qResponse'.body.item = <<r>>
  /\ QScanDone(TRUE) =>
       /\ WriterTable \subseteq qResponse'.body.items
       /\ qResponse'.body.count = Cardinality(WriterTable)

\* C19: the writer and the Query Service address the same table in every
\* configuration, INVOICE_TABLE_NAME not set included, so that a record
\* persisted under a TicketId is returned by a later lookup of that id and
\* is in a later list of all records.
C19_WriterAndReaderSameTable ==
  [][C19_ReadStep]_vars

\* ================================================ Orchestrator: batch result
\* item i of the batch is the item of event record i, with that record's
\* decoded key
C21_InvokeStep ==
  \A ev \in Events :
    Invoke(ev) =>
      /\ Len(items') = Len(ev)
      /\ \A i \in DOMAIN ev :
           LET key == DecodeURIComponent(ReplacePlus(ev[i].key))
           IN (ev[i].hasS3 /\ key # URIError) => items'[i].key = key

\* the items of a batch keep their places and their keys
C21_ItemsStay ==
  batchPc # "idle" =>
    /\ Len(items') = Len(items)
    /\ \A i \in Items : items'[i].key = items[i].key

\* C21: the outcomes of the batch result are in the order of the event's
\* records: outcome i is the outcome of the item of record i and carries
\* that record's decoded key, in whatever order the items finished; a
\* batch that returns 500 carries no outcomes.
C21_ResultsInRecordOrder ==
  /\ [][C21_InvokeStep /\ C21_ItemsStay]_vars
  /\ [](batchPc = "returned" =>
          IF response.statusCode = 200
          THEN /\ Len(response.results) = Len(items)
               /\ \A i \in Items :
                    /\ response.results[i] = items[i].result[1]
                    /\ response.results[i].key = items[i].key
          ELSE response.results = <<>>)

\* a batch of two records with different keys has returned, and the second
\* item derived its TicketId at an earlier time than the first one
C21_Witness ==
  /\ batchPc = "returned"
  /\ Len(response.results) = 2
  /\ response.results[1].key = <<"a">>
  /\ response.results[2].key = <<"a", " ", "A">>
  /\ IsSuffix(<<"2">>, response.results[1].ticketId.v)
  /\ IsSuffix(<<"1">>, response.results[2].ticketId.v)

====
